---- MODULE Spec2Model ----
(***************************************************************************)
(* State machine of Stream (src/stream.py): the per-aircraft store `acs`,  *)
(* the squawk table `squawks`, the updated-aircraft buffer and the weather *)
(* batch, driven by process_raw cycles and compute_current_weather.        *)
(*                                                                         *)
(* A process_raw call is one cycle: ProcessRawBegin fixes tnow and the     *)
(* lengths of the two batches, AdsbMsg / EhsMsg are one iteration of the   *)
(* two for-loops (the message of the iteration is drawn when the loop      *)
(* reaches it), and Cleanup is everything after the loops (lines 198-223). *)
(* pc is the position of the call; the public operations of the class are  *)
(* only callable between cycles (pc = "idle").                             *)
(*                                                                         *)
(* last and cycle_log are observations, not fields of the class: last is  *)
(* the input and the outcome of the latest step, cycle_log the kinds of    *)
(* fresh messages ingested since a cycle that started on an empty store,   *)
(* with the start of the period the batch of the cycle was received in.    *)
(*                                                                         *)
(* A python dict with optional keys is a function whose DOMAIN is the set  *)
(* of keys present; a decoded field that is None is a key that is absent   *)
(* from the message record.                                                *)
(***************************************************************************)
EXTENDS Integers, Sequences, FiniteSets, TLC

VARIABLES acs, squawks, ehs_updated_acs, weather, t, correction,
          pc, adsb_left, ehs_left, local_ehs_updated_acs_buffer,
          last, cycle_log

vars == <<acs, squawks, ehs_updated_acs, weather, t, correction,
          pc, adsb_left, ehs_left, local_ehs_updated_acs_buffer,
          last, cycle_log>>

----------------------------------------------------------------------------
\* Bounds of the model.

\* Longest ADS-B batch and longest EHS batch of one process_raw call.
MaxAdsbBatch == 2
MaxEhsBatch == 2
\* The squawk counter is not incremented beyond this value.
MaxCount == 11

\* Literals of the source.
RecordTTL == 180
AirDataTTL == 5
SquawkTTL == 300
SquawkMinCount == 10
AltTolerance == 250
PosRefTTL == 180
PairWindow == 10
FlushTTL == 5
RollLimit == 5
MachIncompressible == 30

----------------------------------------------------------------------------
\* Python dict helpers.

Has(d, k) == k \in DOMAIN d
Put(d, k, v) == [x \in DOMAIN d \cup {k} |-> IF x = k THEN v ELSE d[x]]
Del(d, ks) == [x \in DOMAIN d \ ks |-> d[x]]
EmptyDict == [x \in {} |-> 0]
Abs(x) == IF x < 0 THEN -x ELSE x
\* Python truthiness of a decoded number: None and 0 are both false.
Truthy(m, k) == Has(m, k) /\ m[k] # 0

----------------------------------------------------------------------------
\* The message decoder (pyModeS) at its boundary: a message is the record of
\* its decoded fields.

icao_of(msg) == msg.icao
typecode(msg) == msg.tc
oe_flag(msg) == msg.oe
df(msg) == msg.df

\* acdb.loc[icao]['magdev']: the aircraft database; a miss raises and gives 0.
AcDb == [i \in {"ABC123"} |-> 2]

\* self.acs[icao] on first sighting, lines 67-75.
NewRecord(icao) ==
    [magdev |-> IF correction /\ icao \in DOMAIN AcDb THEN AcDb[icao] ELSE 0]

\* Surface (type code 5..8) or airborne (9..18) position frame.
FrameKind(msg) == IF typecode(msg) <= 8 THEN "surface" ELSE "airborne"

\* pms.adsb.position(msg0, msg1, t0, t1, lat0, lon0): raises on a mix of
\* surface and airborne frames, None when the two frames do not share a
\* latitude zone, else the position of the newer frame.
GlobalDecode(msg0, msg1, t0, t1) ==
    IF FrameKind(msg0) # FrameKind(msg1) THEN [r |-> "raise"]
    ELSE IF msg0.zone # msg1.zone THEN [r |-> "none"]
    ELSE [r |-> "ok", latlon |-> IF t0 > t1 THEN msg0.latlon ELSE msg1.latlon]

\* pms.adsb.position_with_ref(msg, rlat, rlon).
LocalDecode(msg, rlat, rlon) == [r |-> "ok", latlon |-> msg.latlon]

UseLocalRefAnyAge(ac, tm) == Has(ac, "tpos")
\* Line 101: the stored position is recent enough to serve as reference.
UseLocalRef(ac, tm) == Has(ac, "tpos") /\ (tm - ac["tpos"] < PosRefTTL)

\* Lines 106-107: both parities stored, close enough in time.
UseGlobalPair(ac) ==
    Has(ac, "t0") /\ Has(ac, "t1") /\ (Abs(ac["t0"] - ac["t1"]) < PairWindow)

\* Lines 101-121: the decode strategy and its result for the frame stored
\* in ac (ac already holds the frame under its parity).
Decode(ac, tm, msg) ==
    IF UseLocalRef(ac, tm)
    THEN [how |-> "local"] @@ LocalDecode(msg, ac["lat"], ac["lon"])
    ELSE IF UseGlobalPair(ac)
    THEN [how |-> "global"] @@ GlobalDecode(ac["f0"], ac["f1"], ac["t0"], ac["t1"])
    ELSE [how |-> "nodecode", r |-> "none"]

WritePositionNoAlt(ac, tm, msg, latlon) ==
    Put(Put(Put(ac, "tpos", tm), "lat", latlon[1]), "lon", latlon[2])
\* Lines 123-127.
WritePosition(ac, tm, msg, latlon) ==
    Put(Put(Put(Put(ac, "tpos", tm), "lat", latlon[1]), "lon", latlon[2]),
        "alt", msg.alt)

\* Lines 82-94: a surface-position or velocity frame.  The result is the
\* record and whether the loop `continue`s.
VelocityPart(ac, tm, msg) ==
    IF (5 <= typecode(msg) /\ typecode(msg) <= 8) \/ typecode(msg) = 19
    THEN IF ~Has(msg, "vdata") THEN [ac |-> ac, cont |-> TRUE]
         ELSE IF msg.vdata.tag # "GS" THEN [ac |-> ac, cont |-> TRUE]
         ELSE [ac |-> Put(Put(Put(Put(ac, "gs", msg.vdata.spd),
                                  "trk", msg.vdata.trk),
                              "roc", msg.vdata.roc), "tv", tm),
               cont |-> FALSE]
    ELSE [ac |-> ac, cont |-> FALSE]

\* Lines 96-99: the frame is stored under its parity with its timestamp.
StoreFrame(ac, tm, msg) ==
    IF oe_flag(msg) = 0 THEN Put(Put(ac, "f0", msg), "t0", tm)
    ELSE Put(Put(ac, "f1", msg), "t1", tm)

\* Lines 96-127: a position frame.
PositionPart(ac, tm, msg) ==
    IF 5 <= typecode(msg) /\ typecode(msg) <= 18
    THEN LET a1 == StoreFrame(ac, tm, msg)
             d == Decode(a1, tm, msg)
         IN  [ac |-> IF d.r = "ok" THEN WritePosition(a1, tm, msg, d.latlon)
                     ELSE a1,
              how |-> d.how, r |-> d.r]
    ELSE [ac |-> ac, how |-> "notpos", r |-> "none"]

\* Lines 64-127: one iteration of the ADS-B loop on the record of the icao.
AdsbApply(ac0, tm, msg) ==
    LET a1 == Put(ac0, "t", tm)
        a2 == IF 1 <= typecode(msg) /\ typecode(msg) <= 4
              THEN Put(a1, "callsign", msg.callsign) ELSE a1
        v == VelocityPart(a2, tm, msg)
        p == PositionPart(v.ac, tm, msg)
    IN  IF v.cont THEN [ac |-> v.ac, how |-> "skipped", r |-> "none"]
        ELSE p

----------------------------------------------------------------------------
\* The EHS loop, lines 130-196.

AltitudeRejectsAt250(ac, msg) ==
    IF Has(ac, "alt") /\ Has(msg, "altcode")
    THEN Abs(ac["alt"] - msg.altcode) >= AltTolerance
    ELSE TRUE
\* Lines 138-146: the DF20 altitude check rejects the message.
AltitudeRejects(ac, msg) ==
    IF Has(ac, "alt") /\ Has(msg, "altcode")
    THEN Abs(ac["alt"] - msg.altcode) > AltTolerance
    ELSE TRUE

\* Lines 150-160: the (squawk, icao) counter is created on first sighting,
\* incremented and its timestamp refreshed.
CountSquawk(sq, icao, tm, msg) ==
    LET code == msg.idcode
        s1 == IF Has(sq, code) THEN sq ELSE Put(sq, code, EmptyDict)
        s2 == IF Has(s1[code], icao) THEN s1
              ELSE Put(s1, code, Put(s1[code], icao, [count |-> 0]))
        n == s2[code][icao].count + 1
    IN  Put(s2, code, Put(s2[code], icao, [count |-> n, ts |-> tm]))

SquawkRejectsAt10(sq, icao, msg) ==
    sq[msg.idcode][icao].count <= SquawkMinCount
\* Line 162: the pair has been seen fewer than 10 times.
SquawkRejects(sq, icao, msg) == sq[msg.idcode][icao].count < SquawkMinCount

\* Lines 166-172: pms.bds.infer, and is50or60 when the inference is
\* ambiguous; a missing gs, trk or alt raises KeyError, which is swallowed
\* and leaves the ambiguous value.
Classify(ac, msg) ==
    IF msg.bds = "BDS50,BDS60"
    THEN IF Has(ac, "gs") /\ Has(ac, "trk") /\ Has(ac, "alt")
         THEN (IF Has(msg, "is50or60") THEN msg.is50or60 ELSE "None")
         ELSE msg.bds
    ELSE msg.bds

\* Line 178.
Accept50(msg) == Truthy(msg, "tas") /\ Truthy(msg, "roll")
\* Line 191.
Accept60(msg) == Truthy(msg, "ias") /\ Truthy(msg, "hdg") /\ Truthy(msg, "mach")

Write50AndTouch(ac, tm, msg) ==
    Put(Put(Put(Put(ac, "t50", tm), "tas", msg.tas), "roll", msg.roll), "t", tm)
\* Lines 179-181.
Write50(ac, tm, msg) ==
    Put(Put(Put(ac, "t50", tm), "tas", msg.tas), "roll", msg.roll)
\* Lines 192-195.
Write60(ac, tm, msg) ==
    Put(Put(Put(Put(ac, "t60", tm), "ias", msg.ias), "hdg", msg.hdg),
        "mach", msg.mach)

\* Lines 166-196: register classification and the air-data write.
Register(ac, tm, msg) ==
    LET bds == Classify(ac, msg)
    IN  IF bds = "BDS50" /\ Accept50(msg)
        THEN [ac |-> Write50(ac, tm, msg), bds |-> bds, wrote |-> TRUE]
        ELSE IF bds = "BDS60" /\ Accept60(msg)
        THEN [ac |-> Write60(ac, tm, msg), bds |-> bds, wrote |-> TRUE]
        ELSE [ac |-> ac, bds |-> bds, wrote |-> FALSE]

GateInEveryMode(ac, sq, icao, tm, msg) ==
    IF df(msg) = 20
    THEN [sq |-> sq,
          fate |-> IF AltitudeRejects(ac, msg) THEN "alt_reject" ELSE "pass"]
    ELSE IF df(msg) = 21
    THEN LET s == CountSquawk(sq, icao, tm, msg)
         IN  [sq |-> s,
              fate |-> IF SquawkRejects(s, icao, msg) THEN "squawk_reject"
                       ELSE "pass"]
    ELSE [sq |-> sq, fate |-> "pass"]
\* Lines 136-164: the validation gate of correction mode.  The squawk table
\* after the message and the reason the message is dropped ("pass" if not).
Gate(ac, sq, icao, tm, msg) ==
    IF ~correction THEN [sq |-> sq, fate |-> "pass"]
    ELSE IF df(msg) = 20
    THEN [sq |-> sq,
          fate |-> IF AltitudeRejects(ac, msg) THEN "alt_reject" ELSE "pass"]
    ELSE IF df(msg) = 21
    THEN LET s == CountSquawk(sq, icao, tm, msg)
         IN  [sq |-> s,
              fate |-> IF SquawkRejects(s, icao, msg) THEN "squawk_reject"
                       ELSE "pass"]
    ELSE [sq |-> sq, fate |-> "pass"]

EhsApplyGateFirst(tm, msg) ==
    LET icao == icao_of(msg)
        known == Has(acs, icao)
        ac == IF known THEN acs[icao] ELSE NewRecord(icao)
        g == Gate(ac, squawks, icao, tm, msg)
        r == Register(ac, tm, msg)
    IN  IF ~known
        THEN [acs |-> acs, sq |-> g.sq, fate |-> "no_record",
              bds |-> "None", wrote |-> FALSE]
        ELSE IF g.fate # "pass"
        THEN [acs |-> acs, sq |-> g.sq, fate |-> g.fate,
              bds |-> "None", wrote |-> FALSE]
        ELSE [acs |-> Put(acs, icao, r.ac), sq |-> g.sq,
              fate |-> "classified", bds |-> r.bds, wrote |-> r.wrote]
\* Lines 131-196: one iteration of the EHS loop.
EhsApply(tm, msg) ==
    LET icao == icao_of(msg)
    IN  IF ~Has(acs, icao)
        THEN [acs |-> acs, sq |-> squawks, fate |-> "no_record",
              bds |-> "None", wrote |-> FALSE]
        ELSE LET g == Gate(acs[icao], squawks, icao, tm, msg)
                 r == Register(acs[icao], tm, msg)
             IN  IF g.fate # "pass"
                 THEN [acs |-> acs, sq |-> g.sq, fate |-> g.fate,
                       bds |-> "None", wrote |-> FALSE]
                 ELSE [acs |-> Put(acs, icao, r.ac), sq |-> g.sq,
                       fate |-> "classified", bds |-> r.bds, wrote |-> r.wrote]

----------------------------------------------------------------------------
\* Clean-up at the end of the cycle, lines 198-220.

RecordStaleAt180(ac, now) == now - ac["t"] >= RecordTTL
\* Line 200.
RecordStale(ac, now) == now - ac["t"] > RecordTTL
Stale50At5(ac, now) == Has(ac, "t50") /\ (now - ac["t50"] >= AirDataTTL)
\* Line 204.
Stale50(ac, now) == Has(ac, "t50") /\ (now - ac["t50"] > AirDataTTL)
\* Line 208.
Stale60(ac, now) == Has(ac, "t60") /\ (now - ac["t60"] > AirDataTTL)

\* The keys deleted by lines 205-206 and by lines 209-212.
Keys50 == {"t50", "tas"}
Keys60 == {"t60", "ias", "hdg", "mach"}

\* Lines 205-206.
Clear50(ac) == Del(ac, Keys50)
\* Lines 209-212.
Clear60(ac) == Del(ac, Keys60)

ClearOneBlock(ac, now) ==
    IF Stale50(ac, now) THEN Clear50(ac)
    ELSE IF Stale60(ac, now) THEN Clear60(ac) ELSE ac
\* Lines 204-212 on one surviving record.
ClearAirData(ac, now) ==
    LET a1 == IF Stale50(ac, now) THEN Clear50(ac) ELSE ac
    IN  IF Stale60(a1, now) THEN Clear60(a1) ELSE a1

\* Lines 199-212.
EvictStale(store, now) ==
    [i \in {j \in DOMAIN store : ~RecordStale(store[j], now)} |->
        ClearAirData(store[i], now)]

SquawkStaleAt300(rec, now) == now - rec.ts >= SquawkTTL
\* Line 219.
SquawkStale(rec, now) == now - rec.ts > SquawkTTL

\* Lines 216-220: stale pairs are deleted, the per-code dict stays.
PurgeSquawks(sq, now) ==
    IF correction
    THEN [c \in DOMAIN sq |->
            [i \in {j \in DOMAIN sq[c] : ~SquawkStale(sq[c][j], now)} |->
                sq[c][i]]]
    ELSE sq

----------------------------------------------------------------------------
\* compute_current_weather, lines 225-316.

\* get_updated_aircraft, lines 333-340.
get_updated_aircraft == {i \in ehs_updated_acs : Has(acs, i)}

QualifiesYoungerThan5(ac) ==
    /\ Has(ac, "tpos") /\ Has(ac, "tv") /\ Has(ac, "t60") /\ Has(ac, "t50")
    /\ Has(ac, "gs")
    /\ ~(t - ac["tpos"] >= FlushTTL)
    /\ ~(t - ac["t60"] >= FlushTTL)
    /\ ~(t - ac["t50"] >= FlushTTL)
    /\ ~(correction /\ ac["roll"] > RollLimit)
\* Lines 244-250: the aircraft yields a sample.
Qualifies(ac) ==
    /\ Has(ac, "tpos") /\ Has(ac, "tv") /\ Has(ac, "t60") /\ Has(ac, "t50")
    /\ Has(ac, "gs")
    /\ ~(t - ac["tpos"] > FlushTTL)
    /\ ~(t - ac["t60"] > FlushTTL)
    /\ ~(t - ac["t50"] > FlushTTL)
    /\ ~(correction /\ ac["roll"] > RollLimit)

\* Lines 252-283: the sample of one aircraft.  mach is in hundredths; the
\* floating-point wind and temperature are represented by the model that
\* produces them (line 263) and by the airspeed that is used (line 271).
Sample(icao, ac) ==
    [icao |-> icao, ts |-> ac["tpos"], lat |-> ac["lat"], lon |-> ac["lon"],
     alt |-> ac["alt"],
     regime |-> IF ac["mach"] < MachIncompressible THEN "incompressible"
                ELSE "compressible",
     va |-> IF ac["t50"] > ac["t60"] THEN "tas" ELSE "derived"]

\* Lines 238-309: the batch.
Batch == {Sample(i, acs[i]) : i \in {j \in get_updated_aircraft : Qualifies(acs[j])}}

ReplaceUpdatedAircraft(buf) == buf
\* add_ehs_updated_aircraft, lines 328-331.
add_ehs_updated_aircraft(buf) == ehs_updated_acs \cup buf

ResetWhenSampled == IF Batch = {} THEN ehs_updated_acs ELSE {}
\* reset_updated_aircraft, lines 342-344.
reset_updated_aircraft == {}

----------------------------------------------------------------------------
\* Actions.

NoStep == [kind |-> "none"]
NoLog == [since |-> 0, active |-> FALSE, first |-> FALSE, got |-> {}]

\* What a message contributes to the five ingredients of a wind sample,
\* when its timestamp is within the freshness window of the cycle time (an
\* EHS reply is logged when it reaches register classification).
Fresh(tm) == t - tm <= FlushTTL
AdsbKinds(tm, msg) ==
    IF ~Fresh(tm) THEN {}
    ELSE (IF typecode(msg) = 19 /\ Has(msg, "vdata") /\ msg.vdata.tag = "GS"
          THEN {<<icao_of(msg), "gs">>} ELSE {})
         \cup
         (IF 9 <= typecode(msg) /\ typecode(msg) <= 18
          THEN {<<icao_of(msg), IF oe_flag(msg) = 0 THEN "even" ELSE "odd">>}
          ELSE {})
EhsKinds(tm, msg) ==
    IF ~Fresh(tm) THEN {}
    ELSE (IF msg.bds = "BDS50" /\ Has(msg, "tas") /\ Has(msg, "roll")
          THEN {<<icao_of(msg), "regA">>} ELSE {})
         \cup
         (IF msg.bds = "BDS60" /\ Has(msg, "ias") /\ Has(msg, "hdg")
                /\ Has(msg, "mach")
          THEN {<<icao_of(msg), "regB">>} ELSE {})
Log(kinds) ==
    IF cycle_log.active THEN [cycle_log EXCEPT !.got = @ \cup kinds]
    ELSE cycle_log

AdsbLoopLeftEarly(left) == "ehs"
\* The loop of line 63 goes on until the batch is exhausted.
AdsbLoopNext(left) == IF left = 0 THEN "ehs" ELSE "adsb"

\* get_cached_aircraft, lines 323-325.
get_cached_aircraft == acs


\* __init__, lines 33-48.
Init ==
    /\ acs = EmptyDict
    /\ squawks = EmptyDict
    /\ ehs_updated_acs = {}
    /\ weather = {}
    /\ t = 0
    /\ correction \in BOOLEAN
    /\ pc = "idle"
    /\ adsb_left = 0
    /\ ehs_left = 0
    /\ local_ehs_updated_acs_buffer = {}
    /\ last = NoStep
    /\ cycle_log = NoLog

\* The log of a cycle that starts on an empty store is active; it stays so
\* over the following cycles while the cycle time does not move.
BeginLog ==
    IF acs = EmptyDict
    THEN [since |-> t, active |-> TRUE, first |-> TRUE, got |-> {}]
    ELSE IF cycle_log.active /\ t' = t
    THEN [cycle_log EXCEPT !.since = t, !.first = FALSE]
    ELSE [since |-> t, active |-> FALSE, first |-> FALSE, got |-> {}]

\* "a chunk of adsb and ehs messages received in the same time period"
\* (lines 52-53): the timestamps of a batch lie between the previous cycle
\* time and tnow.
InPeriod(tm) == cycle_log.since <= tm /\ tm <= t

\* process_raw, lines 51-60: the call with its tnow and its two batches.
ProcessRawBegin(Ts) ==
    /\ pc = "idle"
    /\ \E tnow \in Ts, na \in 0..MaxAdsbBatch, ne \in 0..MaxEhsBatch :
          /\ tnow >= t
          /\ t' = tnow
          /\ adsb_left' = na
          /\ ehs_left' = ne
          /\ pc' = AdsbLoopNext(na)
    /\ local_ehs_updated_acs_buffer' = {}
    /\ last' = NoStep
    /\ cycle_log' = BeginLog
    /\ UNCHANGED <<acs, squawks, ehs_updated_acs, weather, correction>>

\* One iteration of the loop of line 63.
AdsbMsg(Ts, Ms) ==
    /\ pc = "adsb"
    /\ \E tm \in Ts, msg \in Ms :
          /\ InPeriod(tm)
          /\ LET icao == icao_of(msg)
                 ac0 == IF Has(acs, icao) THEN acs[icao] ELSE NewRecord(icao)
                 res == AdsbApply(ac0, tm, msg)
             IN  /\ acs' = Put(acs, icao, res.ac)
                 /\ last' = [kind |-> "adsb", tm |-> tm, msg |-> msg,
                             how |-> res.how, r |-> res.r]
          /\ cycle_log' = Log(AdsbKinds(tm, msg))
    /\ adsb_left' = adsb_left - 1
    /\ pc' = AdsbLoopNext(adsb_left')
    /\ UNCHANGED <<squawks, ehs_updated_acs, weather, t, correction, ehs_left,
                   local_ehs_updated_acs_buffer>>

\* The counter of the pair of a DF21 message is below the bound of the model.
CountBelowBound(msg) ==
    (correction /\ df(msg) = 21 /\ Has(acs, icao_of(msg))
       /\ Has(squawks, msg.idcode) /\ Has(squawks[msg.idcode], icao_of(msg)))
    => squawks[msg.idcode][icao_of(msg)].count < MaxCount

\* What the squawk table holds for the pair of a DF21 reply before the reply
\* is counted (lines 152-157): nothing for the code, the code without the
\* pair (the state a purge of line 220 leaves), or the pair.
PairBefore(msg) ==
    IF ~(correction /\ df(msg) = 21) THEN "n/a"
    ELSE IF ~Has(squawks, msg.idcode) THEN "no_code"
    ELSE IF ~Has(squawks[msg.idcode], icao_of(msg)) THEN "no_pair"
    ELSE "pair"

\* One iteration of the loop of line 130.
EhsMsg(Ts, Ms) ==
    /\ pc = "ehs"
    /\ ehs_left > 0
    /\ \E tm \in Ts, msg \in Ms :
          /\ InPeriod(tm)
          /\ CountBelowBound(msg)
          /\ LET res == EhsApply(tm, msg)
             IN  /\ acs' = res.acs
                 /\ squawks' = res.sq
                 /\ local_ehs_updated_acs_buffer' =
                       IF res.wrote
                       THEN local_ehs_updated_acs_buffer \cup {icao_of(msg)}
                       ELSE local_ehs_updated_acs_buffer
                 /\ last' = [kind |-> "ehs", tm |-> tm, msg |-> msg,
                             fate |-> res.fate, bds |-> res.bds,
                             wrote |-> res.wrote, pair |-> PairBefore(msg)]
                 /\ cycle_log' = Log(IF res.fate = "classified"
                                      THEN EhsKinds(tm, msg) ELSE {})
    /\ ehs_left' = ehs_left - 1
    /\ UNCHANGED <<ehs_updated_acs, weather, t, correction, pc, adsb_left>>

\* Lines 198-223: eviction, add_ehs_updated_aircraft, squawk purge, return.
Cleanup ==
    /\ pc = "ehs"
    /\ ehs_left = 0
    /\ acs' = EvictStale(acs, t)
    /\ ehs_updated_acs' = add_ehs_updated_aircraft(local_ehs_updated_acs_buffer)
    /\ squawks' = PurgeSquawks(squawks, t)
    /\ pc' = "idle"
    /\ local_ehs_updated_acs_buffer' = {}
    /\ last' = [kind |-> "cleanup", before |-> acs, squawks |-> squawks]
    /\ UNCHANGED <<weather, t, correction, adsb_left, ehs_left, cycle_log>>

\* compute_current_weather, lines 225-316, with reset_updated_aircraft.
ComputeCurrentWeather ==
    /\ pc = "idle"
    /\ weather' = Batch
    /\ ehs_updated_acs' = reset_updated_aircraft
    /\ last' = [kind |-> "flush", read |-> get_updated_aircraft,
                held |-> ehs_updated_acs]
    /\ cycle_log' = [NoLog EXCEPT !.since = cycle_log.since]
    /\ UNCHANGED <<acs, squawks, t, correction, pc, adsb_left, ehs_left,
                   local_ehs_updated_acs_buffer>>

----------------------------------------------------------------------------
\* Input alphabets: the decoded messages and the timestamps of the checks.

ICAOs == {"ABC123", "DEF456"}

GroundSpeed == [spd |-> 400, trk |-> 90, roc |-> 0, tag |-> "GS"]
AirSpeed == [spd |-> 380, trk |-> 90, roc |-> 0, tag |-> "TAS"]

\* ADS-B: identification, velocity (ground speed, airspeed, undecodable),
\* airborne and surface position frames of either parity.
Ident(i) == [icao |-> i, tc |-> 4, callsign |-> "KLM1023"]
VelGS(i) == [icao |-> i, tc |-> 19, vdata |-> GroundSpeed]
VelTAS(i) == [icao |-> i, tc |-> 19, vdata |-> AirSpeed]
VelNone(i) == [icao |-> i, tc |-> 19]
AirPos(i, oe, zone) ==
    [icao |-> i, tc |-> 11, oe |-> oe, zone |-> zone,
     latlon |-> <<52 + zone, 4>>, alt |-> 3000]
SurfPos(i, oe) ==
    [icao |-> i, tc |-> 7, oe |-> oe, zone |-> 0, latlon |-> <<52, 4>>,
     alt |-> 0, vdata |-> GroundSpeed]
SurfPosNoVel(i, oe) ==
    [icao |-> i, tc |-> 7, oe |-> oe, zone |-> 0, latlon |-> <<52, 4>>,
     alt |-> 0]

\* EHS: DF20 carries an altitude code (or none), DF21 an identity code.
Df20(i, altcode, body) == [icao |-> i, df |-> 20, altcode |-> altcode] @@ body
Df20NoAlt(i, body) == [icao |-> i, df |-> 20] @@ body
Df21(i, idcode, body) == [icao |-> i, df |-> 21, idcode |-> idcode] @@ body

Bds50(tas, roll) == [bds |-> "BDS50", tas |-> tas, roll |-> roll]
Bds50NoRoll == [bds |-> "BDS50", tas |-> 420]
Bds60(ias, hdg, mach) ==
    [bds |-> "BDS60", ias |-> ias, hdg |-> hdg, mach |-> mach]
Bds60NoMach == [bds |-> "BDS60", ias |-> 280, hdg |-> 90]
Bds40 == [bds |-> "BDS40"]
Ambiguous50 ==
    [bds |-> "BDS50,BDS60", is50or60 |-> "BDS50", tas |-> 420, roll |-> 2]
AmbiguousNone == [bds |-> "BDS50,BDS60", tas |-> 420, roll |-> 2]

----------------------------------------------------------------------------
\* Specifications.  The actions are those of the class; a specification
\* fixes the timestamps and the messages that are fed to them.

Step(Ts, As, Es) ==
    \/ ProcessRawBegin(Ts)
    \/ AdsbMsg(Ts, As)
    \/ EhsMsg(Ts, Es)
    \/ Cleanup
    \/ ComputeCurrentWeather

\* Record and air-data lifetime: ages of exactly 5 s and 180 s and of
\* one second more, two aircraft.
LifeTimes == {0, 1, 6, 180, 186}
LifeAdsb == {Ident("ABC123"), Ident("DEF456")}
LifeEhs ==
    {Df20("ABC123", 3000, Bds50(420, 2)),
     Df21("ABC123", 7000, Bds60(280, 90, 78))}
Next == Step(LifeTimes, LifeAdsb, LifeEhs)
Spec == Init /\ [][Next]_vars

\* End to end: velocity, an even/odd pair, both registers, then the flush.
FlowTimes == {0, 5, 6}
FlowAdsb == {VelGS("ABC123"), AirPos("ABC123", 0, 0), AirPos("ABC123", 1, 0)}
FlowEhs ==
    {Df20("ABC123", 3000, Bds50(420, 2)),
     Df20("ABC123", 3000, Bds50(420, 0)),
     Df20("ABC123", 3000, Bds60(280, 90, 78))}
NextFlow == Step(FlowTimes, FlowAdsb, FlowEhs)
SpecFlow == Init /\ [][NextFlow]_vars

\* The sample gate of the flush: the ingredients of a sample at ages of
\* 0, 5 and 6 s, a roll angle within and beyond the limit.
SampleTimes == {0, 5, 6}
SampleAdsb ==
    {VelGS("ABC123"), AirPos("ABC123", 0, 0), AirPos("ABC123", 1, 0)}
SampleEhs ==
    {Df20("ABC123", 3000, Bds50(420, 2)),
     Df20("ABC123", 3000, Bds50(420, 6)),
     Df20("ABC123", 3000, Bds60(280, 90, 78))}
NextSample == Step(SampleTimes, SampleAdsb, SampleEhs)
SpecSample == Init /\ [][NextSample]_vars

\* Validation gate: altitudes at the 250 boundary, a squawk pair, and the
\* 180 s / 300 s lifetimes of the record and of the pair.
GateTimes == {0, 300, 301}
GateAdsb == {AirPos("ABC123", 0, 0), AirPos("ABC123", 1, 0)}
GateEhs ==
    {Df20("ABC123", 3250, Bds50(420, 2)),
     Df20("ABC123", 3251, Bds50(420, 2)),
     Df20NoAlt("ABC123", Bds50(420, 2)),
     Df21("ABC123", 7000, Bds60(280, 90, 78))}
NextGate == Step(GateTimes, GateAdsb, GateEhs)
SpecGate == Init /\ [][NextGate]_vars

\* Position decode: frames of both parities and kinds around the 10 s pair
\* window and the 180 s reference age.
PosTimes == {0, 171, 180, 181}
PosAdsb ==
    {AirPos("ABC123", 0, 0), AirPos("ABC123", 1, 0), AirPos("ABC123", 1, 1),
     SurfPos("ABC123", 0), SurfPosNoVel("ABC123", 1)}
PosEhs == {Df20("ABC123", 3000, Bds40)}
NextPos == Step(PosTimes, PosAdsb, PosEhs)
SpecPos == Init /\ [][NextPos]_vars

----------------------------------------------------------------------------
\* Claims.

LastIcao == icao_of(last.msg)

\* C1: after the cycle at time T completes, the snapshot holds no record with
\* T - lastSeen > 180, and every record the cycle ended with at
\* T - lastSeen <= 180 (exactly 180 included) is still in it.
C1_EvictedAfter180 ==
    /\ pc = "idle" =>
          \A i \in DOMAIN get_cached_aircraft :
             t - get_cached_aircraft[i]["t"] <= RecordTTL
    /\ last.kind = "cleanup" =>
          DOMAIN get_cached_aircraft =
             {i \in DOMAIN last.before : t - last.before[i]["t"] <= RecordTTL}

\* A cycle that evicts a record aged more than 180 s and keeps one aged
\* exactly 180 s.
C1_Witness ==
    /\ last.kind = "cleanup"
    /\ \E i \in DOMAIN last.before :
          t - last.before[i]["t"] > RecordTTL /\ ~Has(get_cached_aircraft, i)
    /\ \E i \in DOMAIN last.before :
          t - last.before[i]["t"] = RecordTTL /\ Has(get_cached_aircraft, i)

\* C5: at the end of a cycle at time now, an air-data block of a surviving
\* record is kept (unchanged) when now - its timestamp <= 5 and removed when
\* now - its timestamp > 5, each block by its own timestamp, and the rest of
\* the record is unchanged.
C5_AirDataExpiry ==
    last.kind = "cleanup" =>
       \A i \in DOMAIN acs :
          LET b == last.before[i]
              a == acs[i]
          IN  /\ (Has(b, "t50") /\ t - b["t50"] <= AirDataTTL) =>
                    (Has(a, "t50") /\ a["t50"] = b["t50"] /\ a["tas"] = b["tas"])
              /\ (Has(b, "t50") /\ t - b["t50"] > AirDataTTL) => ~Has(a, "t50")
              /\ (Has(b, "t60") /\ t - b["t60"] <= AirDataTTL) =>
                    (Has(a, "t60") /\ \A k \in Keys60 : a[k] = b[k])
              /\ (Has(b, "t60") /\ t - b["t60"] > AirDataTTL) => ~Has(a, "t60")
              /\ Del(a, Keys50 \cup Keys60) = Del(b, Keys50 \cup Keys60)

\* A cycle that removes airData50 (older than 5 s) of a record and keeps its
\* airData60, aged exactly 5 s.
C5_Witness ==
    /\ last.kind = "cleanup"
    /\ \E i \in DOMAIN acs :
          /\ Has(last.before[i], "t50") /\ ~Has(acs[i], "t50")
          /\ Has(acs[i], "t60") /\ t - acs[i]["t60"] = AirDataTTL

\* C7 as claimed: a record that received an accepted EHS reply within the
\* last 180 s is not evicted.
C7_EhsKeepsAlive ==
    last.kind = "cleanup" =>
       \A i \in DOMAIN last.before :
          (\E k \in {"t50", "t60"} :
              Has(last.before[i], k) /\ t - last.before[i][k] <= RecordTTL)
          => Has(acs, i)

\* C7 amended: lastSeen is set by every ADS-B message of the identity to the
\* timestamp of the message and is changed by no EHS reply.
C7_OnlyAdsbRefreshes ==
    [][/\ last'.kind = "ehs" =>
             \A i \in DOMAIN acs : Has(acs', i) /\ acs'[i]["t"] = acs[i]["t"]
       /\ last'.kind = "adsb" =>
             acs'[icao_of(last'.msg)]["t"] = last'.tm]_vars

\* An EHS reply that wrote air data with a timestamp newer than lastSeen.
C7_Witness ==
    /\ last.kind = "ehs" /\ last.wrote
    /\ acs[LastIcao]["t"] < last.tm

\* C4: after every compute_current_weather the updated-aircraft set is
\* empty, whatever it held and whether or not an aircraft qualified; a flush
\* that finds the set empty returns an empty batch, and between flushes the
\* set only gains the identities of the air-data writes of a cycle.
C4_FlushClears ==
    /\ [](last.kind = "flush" => ehs_updated_acs = {})
    /\ [][/\ (last'.kind = "flush" /\ ehs_updated_acs = {}) => weather' = {}
          /\ last'.kind # "flush" =>
                ehs_updated_acs' =
                   ehs_updated_acs \cup
                      (IF last'.kind = "cleanup"
                       THEN local_ehs_updated_acs_buffer ELSE {})]_vars

\* A flush that read a non-empty set, sampled nothing and cleared the set.
C4_Witness ==
    /\ last.kind = "flush" /\ last.read # {}
    /\ weather = {} /\ ehs_updated_acs = {}

FiveKinds == {"gs", "even", "odd", "regA", "regB"}

\* C9 as claimed, in permissive mode: when, starting on an empty store, a
\* ground-speed velocity message, an even and an odd airborne position frame,
\* a register-A reply and a register-B reply with all fields non-null have
\* been ingested for an identity, all within 5 s of the cycle time, the flush
\* that follows returns exactly one sample, for that identity.
C9_EndToEnd ==
    \A i \in ICAOs :
       (/\ ~correction
        /\ last.kind = "cleanup"
        /\ cycle_log.active
        /\ \A k \in FiveKinds : <<i, k>> \in cycle_log.got)
       => (Cardinality(Batch) = 1 /\ \A s \in Batch : s.icao = i)

\* C6: an EHS message is examined only when no ADS-B message of the batch is
\* left, the altitude check of a DF20 reply is decided by the altitude the
\* record then holds, and the clean-up runs when both batches are exhausted.
C6_AdsbBeforeEhs ==
    /\ last.kind = "ehs" => adsb_left = 0
    /\ last.kind = "cleanup" => (adsb_left = 0 /\ ehs_left = 0)
    /\ (last.kind = "ehs" /\ correction /\ df(last.msg) = 20
          /\ Has(acs, LastIcao)) =>
          ((last.fate = "classified") <=>
              (/\ Has(acs[LastIcao], "alt") /\ Has(last.msg, "altcode")
               /\ Abs(acs[LastIcao]["alt"] - last.msg.altcode) <= AltTolerance))

\* A DF20 reply accepted against the altitude decoded by the ADS-B batch of
\* the same cycle (the store was empty when the cycle began).
C6_Witness ==
    /\ last.kind = "ehs" /\ correction /\ df(last.msg) = 20
    /\ last.fate = "classified"
    /\ cycle_log.first
    /\ Has(acs[LastIcao], "alt")

\* C3: in validation mode a DF20 reply for a record without ADS-B altitude
\* is discarded, one whose altitude differs from the recorded one by more
\* than 250 is discarded, and one that differs by at most 250 reaches
\* register classification.
C3_AltitudeCheck ==
    (last.kind = "ehs" /\ correction /\ df(last.msg) = 20 /\ Has(acs, LastIcao))
    => LET ac == acs[LastIcao]
       IN  /\ ~Has(ac, "alt") => last.fate = "alt_reject"
           /\ (Has(ac, "alt") /\ Has(last.msg, "altcode")
                 /\ Abs(ac["alt"] - last.msg.altcode) > AltTolerance)
                 => last.fate = "alt_reject"
           /\ (Has(ac, "alt") /\ Has(last.msg, "altcode")
                 /\ Abs(ac["alt"] - last.msg.altcode) <= AltTolerance)
                 => last.fate = "classified"

\* A DF20 reply exactly 250 off the recorded altitude that was classified.
C3_Witness ==
    /\ last.kind = "ehs" /\ correction /\ df(last.msg) = 20
    /\ Has(acs, LastIcao) /\ Has(acs[LastIcao], "alt")
    /\ Has(last.msg, "altcode")
    /\ Abs(acs[LastIcao]["alt"] - last.msg.altcode) = AltTolerance
    /\ last.fate = "classified"

PairOfLast == squawks[last.msg.idcode][LastIcao]
Df21InValidation ==
    last.kind = "ehs" /\ correction /\ df(last.msg) = 21

\* C2 as claimed: in validation mode a DF21 reply of a pair that is in the
\* squawk table with a count of at least 10 reaches register
\* classification.
C2_TenthAndLaterClassified ==
    (/\ Df21InValidation
     /\ Has(squawks, last.msg.idcode)
     /\ Has(squawks[last.msg.idcode], LastIcao)
     /\ PairOfLast.count >= SquawkMinCount)
    => last.fate = "classified"

\* C2 amended: in validation mode, a DF21 reply for an identity that has a
\* record raises the counter of its pair by one (from 0 for a new pair); it
\* is discarded before classification while the counter is at most 9 and
\* reaches classification when the counter is 10 or more.
C2_SquawkGate ==
    /\ []((Df21InValidation /\ Has(acs, LastIcao)) =>
            /\ PairOfLast.count <= SquawkMinCount - 1 =>
                  last.fate = "squawk_reject"
            /\ PairOfLast.count >= SquawkMinCount => last.fate = "classified")
    /\ [][(Df21InValidation' /\ Has(acs, LastIcao'))
            => PairOfLast'.count =
                  1 + (IF Has(squawks, last'.msg.idcode)
                          /\ Has(squawks[last'.msg.idcode], LastIcao')
                       THEN squawks[last'.msg.idcode][LastIcao'].count
                       ELSE 0)]_vars

\* The tenth DF21 reply of a pair, classified.
C2_Witness ==
    /\ Df21InValidation /\ Has(acs, LastIcao)
    /\ PairOfLast.count = SquawkMinCount
    /\ last.fate = "classified"

\* C8 as claimed: in permissive mode every EHS reply reaches register
\* classification.
C8_EveryReplyClassified ==
    (~correction /\ last.kind = "ehs") => last.fate = "classified"

\* C8 amended: in permissive mode every EHS reply for an identity that has
\* a record reaches register classification, whatever its altitude or
\* squawk, and the squawk table is never written.
C8_PermissiveMode ==
    ~correction =>
       /\ squawks = EmptyDict
       /\ (last.kind = "ehs" /\ Has(acs, LastIcao)) => last.fate = "classified"

\* A DF20 reply without altitude baseline or more than 250 off, classified
\* in permissive mode.
C8_Witness ==
    /\ ~correction /\ last.kind = "ehs" /\ df(last.msg) = 20
    /\ last.fate = "classified"
    /\ \/ ~Has(acs[LastIcao], "alt")
       \/ ~Has(last.msg, "altcode")
       \/ Abs(acs[LastIcao]["alt"] - last.msg.altcode) > AltTolerance

\* C10: a position frame at time t for a record whose position is older than
\* 180 s (t - tpos > 180), the stored frames (the frame included) not being
\* an even/odd pair with |t0 - t1| < 10, attempts no decode and leaves
\* tpos, lat, lon and alt as they were.
C10_StaleRefNoPair ==
    [][LET i == LastIcao'
       IN  (/\ last'.kind = "adsb"
            /\ 5 <= typecode(last'.msg) /\ typecode(last'.msg) <= 18
            /\ Has(acs, i) /\ Has(acs[i], "tpos")
            /\ last'.tm - acs[i]["tpos"] > PosRefTTL
            /\ ~(/\ Has(acs'[i], "t0") /\ Has(acs'[i], "t1")
                 /\ Abs(acs'[i]["t0"] - acs'[i]["t1"]) < PairWindow))
           => /\ last'.how \in {"nodecode", "skipped"}
              /\ \A k \in {"tpos", "lat", "lon", "alt"} : acs'[i][k] = acs[i][k]
      ]_vars

\* A frame that found a position older than 180 s and no pair, not decoded.
C10_Witness ==
    /\ last.kind = "adsb" /\ last.how = "nodecode"
    /\ Has(acs[LastIcao], "tpos")
    /\ last.tm - acs[LastIcao]["tpos"] > PosRefTTL

\* C11 as claimed: a reply classified as register A with true airspeed and
\* roll both non-null (0 included) writes airData50 with the timestamp of the
\* reply and marks the identity; a reply classified as register B with
\* indicated airspeed, heading and Mach all non-null (0 included) writes
\* airData60 and marks the identity.
C11_NonNullWrites ==
    (last.kind = "ehs" /\ last.fate = "classified") =>
       LET ac == acs[LastIcao]
           m == last.msg
       IN  /\ (last.bds = "BDS50" /\ Has(m, "tas") /\ Has(m, "roll")) =>
                 /\ last.wrote
                 /\ LastIcao \in local_ehs_updated_acs_buffer
                 /\ Has(ac, "t50") /\ ac["t50"] = last.tm
                 /\ ac["tas"] = m.tas /\ ac["roll"] = m.roll
           /\ (last.bds = "BDS60" /\ Has(m, "ias") /\ Has(m, "hdg")
                 /\ Has(m, "mach")) =>
                 /\ last.wrote
                 /\ LastIcao \in local_ehs_updated_acs_buffer
                 /\ Has(ac, "t60") /\ ac["t60"] = last.tm
                 /\ ac["ias"] = m.ias /\ ac["hdg"] = m.hdg
                 /\ ac["mach"] = m.mach

\* C12 as claimed: after an ADS-B message with type code 5..18 the record
\* holds that frame under its parity, with the timestamp of the message,
\* surface frames with a null or non-ground-speed velocity included.
C12_FrameStoredFirst ==
    (last.kind = "adsb" /\ 5 <= typecode(last.msg) /\ typecode(last.msg) <= 18)
    => LET ac == acs[LastIcao]
       IN  IF oe_flag(last.msg) = 0
           THEN Has(ac, "f0") /\ ac["f0"] = last.msg /\ ac["t0"] = last.tm
           ELSE Has(ac, "f1") /\ ac["f1"] = last.msg /\ ac["t1"] = last.tm

\* C13 as claimed: after the clean-up a record without the timestamp of
\* airData50 holds neither true airspeed nor roll, and a record without the
\* timestamp of airData60 holds none of indicated airspeed, heading, Mach.
C13_AllFieldsCleared ==
    last.kind = "cleanup" =>
       \A i \in DOMAIN acs :
          /\ ~Has(acs[i], "t50") => (~Has(acs[i], "tas") /\ ~Has(acs[i], "roll"))
          /\ ~Has(acs[i], "t60") =>
                (~Has(acs[i], "ias") /\ ~Has(acs[i], "hdg")
                   /\ ~Has(acs[i], "mach"))

\* C14 as claimed: a position frame that is processed is decoded against the
\* stored position whenever that position is at most 180 s old (exactly 180
\* included); otherwise by the global decode if both parities are stored
\* within 10 s of each other, otherwise not at all.
C14_StrictPriority ==
    [][LET i == LastIcao'
       IN  (/\ last'.kind = "adsb"
            /\ 5 <= typecode(last'.msg) /\ typecode(last'.msg) <= 18
            /\ last'.how # "skipped")
           => LET young == /\ Has(acs, i) /\ Has(acs[i], "tpos")
                           /\ last'.tm - acs[i]["tpos"] <= PosRefTTL
                  pair == /\ Has(acs'[i], "t0") /\ Has(acs'[i], "t1")
                          /\ Abs(acs'[i]["t0"] - acs'[i]["t1"]) < PairWindow
              IN  /\ young => last'.how = "local"
                  /\ (~young /\ pair) => last'.how = "global"
                  /\ (~young /\ ~pair) => last'.how = "nodecode"
      ]_vars

PosKeys == {"tpos", "lat", "lon", "alt"}

\* C16: for a record that exists before and after a step, tpos, lat, lon and
\* alt are all left as they were (present or absent) unless the step is an
\* ADS-B message of the identity whose decode succeeded, and then all four
\* are written, with the timestamp and the altitude of the message; this
\* covers the clean-up, messages without decode and failed global decodes.
\* After a global decode that raised, the loop goes on with the rest of the
\* batch.
C16_PositionFrame ==
    [][/\ \A i \in DOMAIN acs \cap DOMAIN acs' :
             IF last'.kind = "adsb" /\ icao_of(last'.msg) = i /\ last'.r = "ok"
             THEN /\ \A k \in PosKeys : Has(acs'[i], k)
                  /\ acs'[i]["tpos"] = last'.tm
                  /\ acs'[i]["alt"] = last'.msg.alt
                  /\ <<acs'[i]["lat"], acs'[i]["lon"]>> \in
                        {f.latlon : f \in {acs'[i][x] :
                                            x \in {"f0", "f1"} \cap DOMAIN acs'[i]}}
             ELSE \A k \in PosKeys :
                     /\ Has(acs'[i], k) = Has(acs[i], k)
                     /\ Has(acs[i], k) => acs'[i][k] = acs[i][k]
       /\ (last'.kind = "adsb" /\ last'.r = "raise") =>
             /\ adsb_left' = adsb_left - 1
             /\ pc' = (IF adsb_left' > 0 THEN "adsb" ELSE "ehs")
      ]_vars

\* A global decode that raised on a surface/airborne pair, for a record with
\* a position, with a message of the batch still to come.
C16_Witness ==
    /\ last.kind = "adsb" /\ last.how = "global" /\ last.r = "raise"
    /\ Has(acs[LastIcao], "tpos")
    /\ pc = "adsb" /\ adsb_left > 0

\* C17: the samples of a flush are those of the aircraft of the snapshot
\* that, at the cycle time now the flush works with, have position,
\* velocity, airData50 and airData60 all present, now - tpos <= 5,
\* now - t60 <= 5 and now - t50 <= 5, and in validation mode roll <= 5; one
\* sample each, and no sample for any other aircraft.
C17_SampleGate ==
    last.kind = "flush" =>
       LET passes(i) ==
              /\ i \in last.read /\ Has(acs, i)
              /\ \A k \in PosKeys \cup {"gs", "tv"} \cup Keys60
                            \cup {"t50", "tas", "roll"} : Has(acs[i], k)
              /\ t - acs[i]["tpos"] <= FlushTTL
              /\ t - acs[i]["t60"] <= FlushTTL
              /\ t - acs[i]["t50"] <= FlushTTL
              /\ correction => acs[i]["roll"] <= RollLimit
       IN  /\ {s.icao : s \in weather} = {i \in ICAOs : passes(i)}
           /\ \A s1, s2 \in weather : s1.icao = s2.icao => s1 = s2

\* A flush in validation mode that emitted a sample for a position aged
\* exactly 5 s.
C17_Witness ==
    /\ last.kind = "flush" /\ correction
    /\ \E s \in weather : t - s.ts = FlushTTL

\* C18: the clean-up is the step that ends a cycle, taken once, when both
\* batches are exhausted, and no message is applied between it and the next
\* call; applying the eviction of records and air data and the squawk purge
\* again, with the same cycle time, to the state it leaves changes neither
\* the store nor the squawk table (the updated set is not an operand of
\* either).
C18_EvictionOnce ==
    /\ [](last.kind = "cleanup" =>
            /\ pc = "idle"
            /\ EvictStale(acs, t) = acs
            /\ PurgeSquawks(squawks, t) = squawks)
    /\ [][/\ last'.kind \in {"adsb", "ehs"} =>
                (pc # "idle" /\ last.kind # "cleanup")
          /\ last'.kind = "cleanup" =>
                /\ pc = "ehs" /\ adsb_left = 0 /\ ehs_left = 0
                /\ last.kind # "cleanup"
                /\ acs' = EvictStale(acs, t)
                /\ squawks' = PurgeSquawks(squawks, t)
          /\ (pc # "idle" /\ pc' = "idle") => last'.kind = "cleanup"
          /\ (pc = "idle" /\ pc' # "idle") => last'.kind = "none"]_vars

\* A clean-up in validation mode that cleared the airData50 of a surviving
\* record and purged a squawk pair.
C18_Witness ==
    /\ last.kind = "cleanup" /\ correction
    /\ \E i \in DOMAIN acs :
          Has(last.before[i], "t50") /\ ~Has(acs[i], "t50")
    /\ \E c \in DOMAIN last.squawks :
          DOMAIN last.squawks[c] # DOMAIN squawks[c]

\* C19 as claimed: a flush removes no identity from the updated set that was
\* not part of the snapshot it read.
C19_NoneClearedUnread ==
    [][last'.kind = "flush" =>
          (ehs_updated_acs \ ehs_updated_acs') \subseteq last'.read]_vars

\* C19 amended: between flushes the updated set only grows; the identity of
\* an accepted register-A/B write is held by the buffer of the cycle, which
\* loses nothing during the cycle and is added to the set by the clean-up;
\* a flush reads the identities of the set that still have a record and
\* empties the set.
C19_DrainAndClear ==
    [][/\ last'.kind # "flush" => ehs_updated_acs \subseteq ehs_updated_acs'
       /\ (last'.kind = "ehs" /\ last'.wrote) =>
             LastIcao' \in local_ehs_updated_acs_buffer'
       /\ (pc # "idle" /\ pc' # "idle") =>
             local_ehs_updated_acs_buffer \subseteq local_ehs_updated_acs_buffer'
       /\ last'.kind = "cleanup" =>
             local_ehs_updated_acs_buffer \subseteq ehs_updated_acs'
       /\ last'.kind = "flush" =>
             /\ last'.held = ehs_updated_acs
             /\ last'.read = {i \in ehs_updated_acs : Has(acs, i)}
             /\ ehs_updated_acs' = {}
      ]_vars

\* A flush that cleared an identity whose record had been evicted, without
\* reading it.
C19_Witness ==
    /\ last.kind = "flush"
    /\ last.held \ last.read # {}
    /\ ehs_updated_acs = {}

\* C20: an EHS reply for an identity without a record, in either mode,
\* leaves the store, the squawk table, the buffer of the cycle, the updated
\* set and the weather batch as they were.
C20_UnknownIdentityNoEffect ==
    [][(last'.kind = "ehs" /\ ~Has(acs, LastIcao')) =>
          /\ last'.fate = "no_record" /\ ~last'.wrote
          /\ acs' = acs
          /\ squawks' = squawks
          /\ local_ehs_updated_acs_buffer' = local_ehs_updated_acs_buffer
          /\ ehs_updated_acs' = ehs_updated_acs
          /\ weather' = weather]_vars

\* A DF21 reply in validation mode for an identity that was evicted while
\* its squawk pair is still in the table: dropped, the pair not counted.
C20_Witness ==
    /\ Df21InValidation /\ last.fate = "no_record"
    /\ ~Has(acs, LastIcao)
    /\ Has(squawks, last.msg.idcode)
    /\ Has(squawks[last.msg.idcode], LastIcao)
    /\ PairOfLast.ts < last.tm

====
